---- MODULE Spec2Model ----
(***************************************************************************)
(* Model of the two serverless HTTP functions of go-vercel:                *)
(*   - handler.Cron       (src/api/cron.go, lines 9-28)                    *)
(*   - mutualfunds.Handler and its helpers (src/api/cron.go, lines 78-252) *)
(*                                                                         *)
(* Strings that the code only compares or concatenates are TLA+ strings.   *)
(* Strings that the code parses character by character (the mutualFundID   *)
(* and every date) are sequences of one-character strings.  A time.Time    *)
(* of the code is always a UTC midnight here, so it is modelled as the     *)
(* number of days since 01-01-0001 (the zero value time.Time{} is 0).      *)
(***************************************************************************)
EXTENDS Integers, Sequences, FiniteSets, TLC

VARIABLES
    req,        \* query parameters of the inbound request: mutualFundID, start, end
    now,        \* the wall clock (time.Now()), as a day number
    upstream,   \* what GET baseURL+id yields: a transport error, a decode error or a Fund
    pc,         \* position of Handler: "ready", "validated", "fetched", "done"
    start,      \* Handler's local `start` (time.Time)
    end,        \* Handler's local `end` (time.Time)
    fund,       \* Handler's local `fund`
    calls,      \* URLs requested from the upstream while serving the current request
    w,          \* the http.ResponseWriter of the current request
    arrival,    \* the clock when Handler started on the current request
    history,    \* the completed exchanges of this request: arrival time and response
    cronSecret, \* the CRON_SECRET environment variable ("" when unset)
    cronLog     \* the completed exchanges of the cron endpoint

vars == <<req, now, upstream, pc, start, end, fund, calls, w, arrival, history, cronSecret, cronLog>>

handlerVars == <<req, now, upstream, pc, start, end, fund, calls, w, arrival, history>>

cronVars == <<cronSecret, cronLog>>

----------------------------------------------------------------------------
(* Bounds of the model *)

\* longest upstream NAV series
MaxSeries == 2

\* how many times the same request is sent
MaxRuns == 2

\* how many requests the cron endpoint receives
MaxCronReqs == 2

----------------------------------------------------------------------------
(* net/http status codes used by the code *)

StatusOK == 200

StatusBadRequest == 400

StatusUnauthorized == 401

StatusInternalServerError == 500

\* const baseURL
baseURL == "https://api.mfapi.in/mf/"

----------------------------------------------------------------------------
(* Characters and numbers *)

Digits == {"0", "1", "2", "3", "4", "5", "6", "7", "8", "9"}

isDigit(c) == c \in Digits

DigitVal(c) ==
    CASE c = "0" -> 0 [] c = "1" -> 1 [] c = "2" -> 2 [] c = "3" -> 3 [] c = "4" -> 4
      [] c = "5" -> 5 [] c = "6" -> 6 [] c = "7" -> 7 [] c = "8" -> 8 [] c = "9" -> 9

DigitChar(n) ==
    CASE n = 0 -> "0" [] n = 1 -> "1" [] n = 2 -> "2" [] n = 3 -> "3" [] n = 4 -> "4"
      [] n = 5 -> "5" [] n = 6 -> "6" [] n = 7 -> "7" [] n = 8 -> "8" [] n = 9 -> "9"

\* strconv.Atoi succeeds: an optional sign followed by one or more decimal digits
\* (the ids of the model are far shorter than the 19 digits at which int overflows)
isValidInteger(value) ==
    LET digits == IF Len(value) > 0 /\ value[1] \in {"+", "-"} THEN Tail(value) ELSE value
    IN  /\ Len(digits) > 0
        /\ \A i \in 1..Len(digits) : isDigit(digits[i])

----------------------------------------------------------------------------
(* time.Time as a day number, time.Parse and Time.Format for layout "02-01-2006" *)

\* time.Time{}
ZeroTime == 0

IsZero(t) == t = ZeroTime

After(t, u) == t > u

Before(t, u) == t < u

Equal(t, u) == t = u

isLeap(year) == year % 4 = 0 /\ (year % 100 # 0 \/ year % 400 = 0)

daysIn(month, year) ==
    IF month = 2 THEN (IF isLeap(year) THEN 29 ELSE 28)
    ELSE IF month \in {4, 6, 9, 11} THEN 30 ELSE 31

RECURSIVE daysBefore(_, _)
daysBefore(month, year) ==
    IF month = 1 THEN 0 ELSE daysBefore(month - 1, year) + daysIn(month - 1, year)

\* time.Date(year, month, day, 0, 0, 0, 0, UTC), counted in days from 01-01-0001
Date(year, month, day) ==
    LET y == year - 1
    IN  365 * y + (y \div 4) - (y \div 100) + (y \div 400) + daysBefore(month, year) + (day - 1)

\* time.Parse("02-01-2006", value): two digits, "-", two digits, "-", four digits and
\* nothing else; the month is 1..12 and the day exists in that month
ParseDate(value) ==
    LET wellFormed ==
            /\ Len(value) = 10
            /\ \A i \in {1, 2, 4, 5, 7, 8, 9, 10} : isDigit(value[i])
            /\ value[3] = "-"
            /\ value[6] = "-"
        day   == 10 * DigitVal(value[1]) + DigitVal(value[2])
        month == 10 * DigitVal(value[4]) + DigitVal(value[5])
        year  == 1000 * DigitVal(value[7]) + 100 * DigitVal(value[8])
                   + 10 * DigitVal(value[9]) + DigitVal(value[10])
    IN  IF wellFormed /\ month \in 1..12 /\ day >= 1 /\ day <= daysIn(month, year)
        THEN [ok |-> TRUE, t |-> Date(year, month, day)]
        ELSE [ok |-> FALSE, t |-> ZeroTime]

\* the year, month and day of a time.Time (Time.Date)
YearOf(t) ==
    LET n400 == t \div 146097
        d1   == t - 146097 * n400
        c100 == d1 \div 36524
        n100 == IF c100 = 4 THEN 3 ELSE c100
        d2   == d1 - 36524 * n100
        n4   == d2 \div 1461
        d3   == d2 - 1461 * n4
        c1   == d3 \div 365
        n1   == IF c1 = 4 THEN 3 ELSE c1
    IN  400 * n400 + 100 * n100 + 4 * n4 + n1 + 1

MonthOf(t) ==
    LET year == YearOf(t)
        yday == t - Date(year, 1, 1)
    IN  CHOOSE m \in 1..12 : daysBefore(m, year) <= yday /\ yday < daysBefore(m, year) + daysIn(m, year)

DayOf(t) == t - Date(YearOf(t), MonthOf(t), 1) + 1

\* appendInt(b, x, width): x in decimal, zero-padded
Pad2(x) == <<DigitChar((x \div 10) % 10), DigitChar(x % 10)>>

Pad4(x) == <<DigitChar((x \div 1000) % 10), DigitChar((x \div 100) % 10)>> \o Pad2(x % 100)

\* t.Format("02-01-2006")
Format(t) == Pad2(DayOf(t)) \o <<"-">> \o Pad2(MonthOf(t)) \o <<"-">> \o Pad4(YearOf(t))

----------------------------------------------------------------------------
(* http.ResponseWriter: every WriteHeader call and every body written is recorded *)

NewWriter == [ctype |-> "", status |-> <<>>, body |-> <<>>]

SetContentType(rw, value) == [rw EXCEPT !.ctype = value]

WriteHeader(rw, statusCode) == [rw EXCEPT !.status = Append(@, statusCode)]

\* Write sends an implicit WriteHeader(StatusOK) when no header was written yet
Write(rw, b) ==
    LET rw1 == IF rw.status = <<>> THEN WriteHeader(rw, StatusOK) ELSE rw
    IN  [rw1 EXCEPT !.body = Append(@, b)]

\* http.Error(w, error, code): the message is written as one line of plain text
HttpError(rw, error, code) ==
    Write(WriteHeader(SetContentType(rw, "text/plain; charset=utf-8"), code),
          [text |-> error \o "\n"])

----------------------------------------------------------------------------
(* mutualfunds: the helpers of Handler *)

\* the zero value of Fund.Meta
ZeroMeta ==
    [FundHouse |-> "", SchemeType |-> "", SchemeCategory |-> "", SchemeCode |-> 0, SchemeName |-> ""]

\* mutant of IsEmptyMeta: only the scheme code is looked at
IsEmptyMeta_CodeOnly(meta) == meta.SchemeCode = 0

\* fund.Meta == (struct{...}{}): Go compares the structs field by field
IsEmptyMeta(meta) ==
    /\ meta.FundHouse = ""
    /\ meta.SchemeType = ""
    /\ meta.SchemeCategory = ""
    /\ meta.SchemeCode = 0
    /\ meta.SchemeName = ""

\* mutant of parseDates: the end date is parsed and reported first
parseDates_EndFirst(startDate, endDate) ==
    LET s == ParseDate(startDate)
        e == ParseDate(endDate)
    IN  IF ~e.ok
        THEN [start |-> ZeroTime, end |-> ZeroTime, err |-> "invalid end date format. use dd-mm-yyyy"]
        ELSE IF ~s.ok
        THEN [start |-> ZeroTime, end |-> ZeroTime, err |-> "invalid start date format. use dd-mm-yyyy"]
        ELSE [start |-> s.t, end |-> e.t, err |-> ""]

parseDates(startDate, endDate) ==
    LET s == ParseDate(startDate)
        e == ParseDate(endDate)
    IN  IF ~s.ok
        THEN [start |-> ZeroTime, end |-> ZeroTime, err |-> "invalid start date format. use dd-mm-yyyy"]
        ELSE IF ~e.ok
        THEN [start |-> ZeroTime, end |-> ZeroTime, err |-> "invalid end date format. use dd-mm-yyyy"]
        ELSE [start |-> s.t, end |-> e.t, err |-> ""]

\* mutant of validateAndParseDates: start is never compared with end
validateAndParseDates_NoOrder(startDate, endDate, timeNow) ==
    LET failed(msg) == [start |-> ZeroTime, end |-> ZeroTime, err |-> msg]
    IN  IF startDate # <<>> /\ endDate # <<>>
        THEN LET p == parseDates(startDate, endDate)
             IN  IF p.err # "" THEN failed(p.err)
                 ELSE IF After(p.end, timeNow) THEN failed("end date cannot be in the future")
                 ELSE [start |-> p.start, end |-> p.end, err |-> ""]
        ELSE IF startDate = <<>> /\ endDate = <<>>
        THEN [start |-> ZeroTime, end |-> ZeroTime, err |-> ""]
        ELSE failed("both start and end dates are required in the format dd-mm-yyyy")

\* mutant of validateAndParseDates: start is compared with the clock, not with end
validateAndParseDates_StartVsNow(startDate, endDate, timeNow) ==
    LET failed(msg) == [start |-> ZeroTime, end |-> ZeroTime, err |-> msg]
    IN  IF startDate # <<>> /\ endDate # <<>>
        THEN LET p == parseDates(startDate, endDate)
             IN  IF p.err # "" THEN failed(p.err)
                 ELSE IF After(p.end, timeNow) THEN failed("end date cannot be in the future")
                 ELSE IF After(p.start, timeNow) THEN failed("start date cannot be after end date")
                 ELSE [start |-> p.start, end |-> p.end, err |-> ""]
        ELSE IF startDate = <<>> /\ endDate = <<>>
        THEN [start |-> ZeroTime, end |-> ZeroTime, err |-> ""]
        ELSE failed("both start and end dates are required in the format dd-mm-yyyy")

\* timeNow is what time.Now() returns when it is called; err = "" stands for a nil error
validateAndParseDates(startDate, endDate, timeNow) ==
    LET failed(msg) == [start |-> ZeroTime, end |-> ZeroTime, err |-> msg]
    IN  IF startDate # <<>> /\ endDate # <<>>
        THEN LET p == parseDates(startDate, endDate)
             IN  IF p.err # "" THEN failed(p.err)
                 ELSE IF After(p.end, timeNow) THEN failed("end date cannot be in the future")
                 ELSE IF After(p.start, p.end) THEN failed("start date cannot be after end date")
                 ELSE [start |-> p.start, end |-> p.end, err |-> ""]
        ELSE IF startDate = <<>> /\ endDate = <<>>
        THEN [start |-> ZeroTime, end |-> ZeroTime, err |-> ""]
        ELSE failed("both start and end dates are required in the format dd-mm-yyyy")

\* the condition under which filterData appends an item
Retained(item, startT, endT) ==
    LET d == ParseDate(item.Date)
    IN  /\ d.ok
        /\ \/ IsZero(startT) /\ IsZero(endT)
           \/ /\ Equal(d.t, startT) \/ After(d.t, startT)
              /\ Equal(d.t, endT) \/ Before(d.t, endT)

RECURSIVE filterData(_, _, _)
filterData(data, startT, endT) ==
    IF data = <<>> THEN <<>>
    ELSE LET item == Head(data)
             rest == filterData(Tail(data), startT, endT)
         IN  IF Retained(item, startT, endT)
             THEN <<[Date |-> item.Date, Nav |-> item.Nav]>> \o rest
             ELSE rest

\* fmt.Sprintf("%s to %s", ...)
PeriodOf(startT, endT) == Format(startT) \o <<" ", "t", "o", " ">> \o Format(endT)

createSuccessResponse(meta, data, startT, endT) ==
    [Meta   |-> meta,
     Period |-> IF ~IsZero(startT) /\ ~IsZero(endT) THEN PeriodOf(startT, endT) ELSE <<>>,
     Data   |-> data]

\* json.Marshal(response): `period` has omitempty; a nil slice is encoded as null, and
\* filterData's result is nil exactly when nothing was appended
Marshal(response) ==
    LET data == [null |-> response.Data = <<>>, items |-> response.Data]
    IN  IF response.Period = <<>>
        THEN [meta |-> response.Meta, data |-> data]
        ELSE [meta |-> response.Meta, period |-> response.Period, data |-> data]

\* mutant of createErrorResponse: the WriteHeader call is missing
createErrorResponse_NoStatus(rw, statusCode, message) ==
    Write(SetContentType(rw, "application/json"), [error |-> message])

createErrorResponse(rw, statusCode, message) ==
    Write(WriteHeader(SetContentType(rw, "application/json"), statusCode), [error |-> message])

\* fetchFundData's result for one reply of the upstream; err = "" stands for a nil error
fetchFundData(reply) ==
    CASE reply.kind = "transportError" ->
           [fund |-> [Meta |-> ZeroMeta, Data |-> <<>>],
            err  |-> "error fetching data from API: " \o reply.err]
      [] reply.kind = "decodeError" ->
           [fund |-> [Meta |-> ZeroMeta, Data |-> <<>>],
            err  |-> "error decoding API response: " \o reply.err]
      [] reply.kind = "fund" ->
           [fund |-> [Meta |-> reply.meta, Data |-> reply.data], err |-> ""]

\* fmt.Sprintf("%s%s", baseURL, mutualFundID)
UrlOf(mutualFundID) == <<baseURL>> \o mutualFundID

\* mutant of HttpGet: the request is sent a second time
HttpGet_Retry(sent, mutualFundID) == sent \o <<UrlOf(mutualFundID), UrlOf(mutualFundID)>>

\* the outbound requests once fetchFundData has run: its single http.Get(url)
HttpGet(sent, mutualFundID) == Append(sent, UrlOf(mutualFundID))

----------------------------------------------------------------------------
(* The requests, upstream replies and clock readings of the model *)

NoParam == <<>>

IDs ==
    { NoParam,
      <<"1", "2", "0">>,
      <<"-", "7">>,
      <<"1", "2", "x">> }

DateZero == <<"0", "1", "-", "0", "1", "-", "0", "0", "0", "1">>

\* a date of upstream points only
Date15Jan == <<"1", "5", "-", "0", "1", "-", "2", "0", "2", "3">>

Date31Jan == <<"3", "1", "-", "0", "1", "-", "2", "0", "2", "3">>

Date15Feb == <<"1", "5", "-", "0", "2", "-", "2", "0", "2", "3">>

\* the 31st of February: well formed, but no day of the calendar
Date31Feb == <<"3", "1", "-", "0", "2", "-", "2", "0", "2", "3">>

\* ISO order, a date of upstream points only: not the layout dd-mm-yyyy
DateIso == <<"2", "0", "2", "3", "-", "0", "1", "-", "1", "5">>

DateParams == {NoParam, DateZero, Date31Jan, Date15Feb, Date31Feb}

Requests == [mutualFundID : IDs, start : DateParams, end : DateParams]

\* the clock readings: 20-01-2023 and 28-02-2023
Clock == {Date(2023, 1, 20), Date(2023, 2, 28)}

FullMeta ==
    [FundHouse |-> "Acme Mutual Fund", SchemeType |-> "Open Ended Schemes",
     SchemeCategory |-> "Equity Scheme", SchemeCode |-> 120, SchemeName |-> "Acme Growth"]

NameOnlyMeta == [ZeroMeta EXCEPT !.SchemeName = "Acme Growth"]

Metas == {ZeroMeta, FullMeta, NameOnlyMeta}

NavPoints ==
    { [Date |-> Date15Jan, Nav |-> "10.50000"],
      [Date |-> Date15Feb, Nav |-> "11.25000"],
      [Date |-> DateIso,   Nav |-> "9.75000"] }

SeqsUpTo(S, n) == UNION {[1..k -> S] : k \in 0..n}

Replies ==
    {[kind |-> "transportError", err |-> "dial tcp: i/o timeout"],
     [kind |-> "decodeError", err |-> "unexpected EOF"]}
    \cup {[kind |-> "fund", meta |-> m, data |-> d] : m \in Metas, d \in SeqsUpTo(NavPoints, MaxSeries)}

Secrets == {"", "s3cret", "other"}

AuthHeaders ==
    {"", "Bearer ", "Bearer s3cret", "Bearer other", "s3cret", "bearer s3cret", "Bearer s3cretx"}

NoFund == [Meta |-> ZeroMeta, Data |-> <<>>]

----------------------------------------------------------------------------
(* mutualfunds.Handler, in the three stretches between its calls to the outside *)

\* lines 80-99: read the query, validate it; time.Now() is read here
Validated(r, timeNow) ==
    IF r.mutualFundID = <<>>
    THEN [err |-> "mutualFundID query parameter is required", start |-> ZeroTime, end |-> ZeroTime]
    ELSE IF ~isValidInteger(r.mutualFundID)
    THEN [err |-> "mutualFundID must be an integer", start |-> ZeroTime, end |-> ZeroTime]
    ELSE validateAndParseDates(r.start, r.end, timeNow)

\* Handler returns: the exchange is over and joins the history
Finish(rw, at) ==
    /\ w' = rw
    /\ pc' = "done"
    /\ history' = Append(history, [at |-> at, w |-> rw])

HandlerValidate ==
    /\ pc = "ready"
    /\ arrival' = now
    /\ LET v == Validated(req, now)
       IN  IF v.err # ""
           THEN /\ Finish(createErrorResponse(w, StatusBadRequest, v.err), now)
                /\ UNCHANGED <<start, end>>
           ELSE /\ start' = v.start
                /\ end' = v.end
                /\ pc' = "validated"
                /\ UNCHANGED <<w, history>>
    /\ UNCHANGED <<req, now, upstream, fund, calls, cronVars>>

\* lines 101-106: the one http.Get of fetchFundData
HandlerFetch ==
    /\ pc = "validated"
    /\ calls' = HttpGet(calls, req.mutualFundID)
    /\ LET f == fetchFundData(upstream)
       IN  IF f.err # ""
           THEN /\ Finish(createErrorResponse(w, StatusInternalServerError, f.err), arrival)
                /\ UNCHANGED fund
           ELSE /\ fund' = f.fund
                /\ pc' = "fetched"
                /\ UNCHANGED <<w, history>>
    /\ UNCHANGED <<req, now, upstream, start, end, arrival, cronVars>>

\* lines 120-136: filter, assemble, marshal and write (json.Marshal cannot fail on a
\* Response, whose fields are strings, an int and a slice of structs of strings)
SuccessWriter(rw, f, startT, endT) ==
    LET filteredData == filterData(f.Data, startT, endT)
        response     == createSuccessResponse(f.Meta, filteredData, startT, endT)
    IN  Write(WriteHeader(SetContentType(rw, "application/json"), StatusOK), Marshal(response))

\* lines 108-136
HandlerRespond ==
    /\ pc = "fetched"
    /\ IF IsEmptyMeta(fund.Meta)
       THEN Finish(createErrorResponse(w, StatusBadRequest, "Invalid mutualFundID"), arrival)
       ELSE Finish(SuccessWriter(w, fund, start, end), arrival)
    /\ UNCHANGED <<req, now, upstream, start, end, fund, calls, arrival, cronVars>>

\* the same request is sent once more, to a fresh invocation of Handler
NextRequest ==
    /\ pc = "done"
    /\ Len(history) < MaxRuns
    /\ pc' = "ready"
    /\ w' = NewWriter
    /\ calls' = <<>>
    /\ start' = ZeroTime
    /\ end' = ZeroTime
    /\ fund' = NoFund
    /\ UNCHANGED <<req, now, upstream, arrival, history, cronVars>>

\* time passes
Tick ==
    /\ \E t \in Clock : t > now /\ now' = t
    /\ UNCHANGED <<req, upstream, pc, start, end, fund, calls, w, arrival, history, cronVars>>

Init ==
    /\ req \in Requests
    /\ upstream \in Replies
    /\ now = Date(2023, 1, 20)
    /\ pc = "ready"
    /\ start = ZeroTime
    /\ end = ZeroTime
    /\ fund = NoFund
    /\ calls = <<>>
    /\ w = NewWriter
    /\ arrival = ZeroTime
    /\ history = <<>>
    /\ cronSecret = ""
    /\ cronLog = <<>>

\* one request, from its arrival to its response
Next ==
    \/ HandlerValidate
    \/ HandlerFetch
    \/ HandlerRespond
    \/ Tick

Spec == Init /\ [][Next]_vars

\* the same request sent up to MaxRuns times, one invocation after the other
NextRepeat ==
    \/ HandlerValidate
    \/ HandlerFetch
    \/ HandlerRespond
    \/ Tick
    \/ NextRequest

SpecRepeat == Init /\ [][NextRepeat]_vars

----------------------------------------------------------------------------
(* handler.Cron *)

\* mutant of CronResponse: the header is compared with the bare secret
CronResponse_NoScheme(authHeader, secret) ==
    IF authHeader # secret
    THEN HttpError(NewWriter, "Unauthorized", StatusUnauthorized)
    ELSE Write(SetContentType(NewWriter, "application/json"), [data |-> "Hello, Cron!"])

\* the whole of Cron, on a fresh ResponseWriter
CronResponse(authHeader, secret) ==
    IF authHeader # "Bearer " \o secret
    THEN HttpError(NewWriter, "Unauthorized", StatusUnauthorized)
    ELSE Write(SetContentType(NewWriter, "application/json"), [data |-> "Hello, Cron!"])

Cron ==
    /\ Len(cronLog) < MaxCronReqs
    /\ \E authHeader \in AuthHeaders :
         cronLog' = Append(cronLog, [auth |-> authHeader, w |-> CronResponse(authHeader, cronSecret)])
    /\ UNCHANGED <<cronSecret, handlerVars>>

InitCron ==
    /\ req = [mutualFundID |-> NoParam, start |-> NoParam, end |-> NoParam]
    /\ upstream = [kind |-> "decodeError", err |-> "unexpected EOF"]
    /\ now = Date(2023, 1, 20)
    /\ pc = "done"
    /\ start = ZeroTime
    /\ end = ZeroTime
    /\ fund = NoFund
    /\ calls = <<>>
    /\ w = NewWriter
    /\ arrival = ZeroTime
    /\ history = <<>>
    /\ cronSecret \in Secrets
    /\ cronLog = <<>>

NextCron == Cron

SpecCron == InitCron /\ [][NextCron]_vars

----------------------------------------------------------------------------
(* What the claims speak of, stated from the request and the upstream reply *)

Done == pc = "done"

\* the one body of a finished exchange
Body == w.body[1]

ErrorOf(statusCode, message) ==
    [ctype |-> "application/json", status |-> <<statusCode>>, body |-> <<[error |-> message]>>]

IntegerIDs == {<<"1", "2", "0">>, <<"-", "7">>}

BothAbsent == req.start = NoParam /\ req.end = NoParam

BothSupplied == req.start # NoParam /\ req.end # NoParam

BothParse == BothSupplied /\ ParseDate(req.start).ok /\ ParseDate(req.end).ok

StartT == ParseDate(req.start).t

EndT == ParseDate(req.end).t

\* the query passes every parameter check for a request that arrived at time t
ParamsValid(t) ==
    /\ req.mutualFundID \in IntegerIDs
    /\ \/ BothAbsent
       \/ BothParse /\ EndT <= t /\ StartT <= EndT

Answered200 == Done /\ w.status = <<StatusOK>>

\* the upstream points whose date is a calendar date within [lo, hi], in upstream order
InRange(data, lo, hi) ==
    SelectSeq(data, LAMBDA p : ParseDate(p.Date).ok /\ lo <= ParseDate(p.Date).t
                                                    /\ ParseDate(p.Date).t <= hi)

----------------------------------------------------------------------------
\* C1: a 200 response to a request without start and end carries the whole upstream
\* series, every point in upstream order, and no period key.
C1_FullSeries ==
    (Answered200 /\ BothAbsent) =>
        /\ Body.data.items = upstream.data
        /\ "period" \notin DOMAIN Body

\* C2: a 200 response to a request with start and end carries exactly the upstream
\* points whose date parses and lies within [start, end], in upstream order.
C2_RangeFilter ==
    (Answered200 /\ BothSupplied) =>
        Body.data.items = InRange(upstream.data, StartT, EndT)

\* C3: a 200 response has period "<start> to <end>" when both dates were supplied
\* and no period key when neither was.
C3_Period ==
    Answered200 =>
        /\ BothSupplied =>
             /\ "period" \in DOMAIN Body
             /\ Body.period = req.start \o <<" ", "t", "o", " ">> \o req.end
        /\ BothAbsent => "period" \notin DOMAIN Body

\* C4 as stated: well-formed dates with start after end and an integer id are
\* answered 400 "start date cannot be after end date".
C4_StartAfterEnd ==
    (Done /\ req.mutualFundID \in IntegerIDs /\ BothParse /\ StartT > EndT) =>
        w = ErrorOf(StatusBadRequest, "start date cannot be after end date")

\* C4 amended: well-formed dates with start after end, an end that is not after the
\* current time, and an integer id are answered 400 "start date cannot be after end
\* date".
C4_StartAfterEndNotFuture ==
    (Done /\ req.mutualFundID \in IntegerIDs /\ BothParse /\ StartT > EndT /\ EndT <= arrival) =>
        w = ErrorOf(StatusBadRequest, "start date cannot be after end date")

C4_Witness ==
    /\ Done /\ req.mutualFundID \in IntegerIDs /\ BothParse /\ StartT > EndT /\ EndT <= arrival
    /\ EndT # ZeroTime
    /\ w.status = <<StatusBadRequest>>

\* C5 as stated: every request causes exactly one outbound call.
C5_ExactlyOneCall == Done => Len(calls) = 1

\* C5 amended: a request never causes more than one outbound call; it causes exactly
\* one (to baseURL + mutualFundID) when its parameters pass validation and none when
\* they do not.
C5_OneCallIffValid ==
    /\ Len(calls) <= 1
    /\ Done => IF ParamsValid(arrival) THEN calls = <<UrlOf(req.mutualFundID)>> ELSE calls = <<>>

C5_Witness == Done /\ Len(calls) = 1 /\ ParamsValid(arrival) /\ BothSupplied

\* C6: once the fetch has succeeded, all-zero metadata is answered 400 "Invalid
\* mutualFundID" whatever the data series holds, and metadata with any non-zero
\* field is never answered so.
C6_Sentinel ==
    (Done /\ calls # <<>> /\ upstream.kind = "fund") =>
        IF upstream.meta = ZeroMeta
        THEN w = ErrorOf(StatusBadRequest, "Invalid mutualFundID")
        ELSE w.status = <<StatusOK>> /\ "error" \notin DOMAIN Body

C6_Witness ==
    /\ Done /\ calls # <<>> /\ upstream.kind = "fund"
    /\ upstream.meta = ZeroMeta
    /\ upstream.data # <<>>
    /\ w = ErrorOf(StatusBadRequest, "Invalid mutualFundID")

\* C7: Cron answers 200 with {"data":"Hello, Cron!"} exactly when the Authorization
\* header is "Bearer " followed by CRON_SECRET; every other header, a missing one
\* included, is answered 401 "Unauthorized" and never gets the payload.
C7_CronAuth ==
    \A i \in DOMAIN cronLog :
        LET e == cronLog[i]
        IN  IF e.auth = "Bearer " \o cronSecret
            THEN /\ e.w.status = <<StatusOK>>
                 /\ e.w.body = <<[data |-> "Hello, Cron!"]>>
                 /\ e.w.ctype = "application/json"
            ELSE /\ e.w.status = <<StatusUnauthorized>>
                 /\ e.w.body = <<[text |-> "Unauthorized\n"]>>

C7_Witness ==
    /\ Len(cronLog) = 2
    /\ cronSecret = "s3cret"
    /\ cronLog[1].auth = "" /\ cronLog[1].w.status = <<StatusUnauthorized>>
    /\ cronLog[2].auth = "Bearer s3cret" /\ cronLog[2].w.status = <<StatusOK>>

\* C8 as stated: the same request, sent at any two times against an unchanged
\* upstream, gets the same response.
C8_Idempotent ==
    \A i, j \in DOMAIN history : history[i].w = history[j].w

\* the requested end date lies after the clock reading t
EndInFuture(t) == ParseDate(req.end).ok /\ EndT > t

\* C8 amended: the same request, sent at two times against an unchanged upstream
\* reply, gets the same response provided the requested end date is in the future at
\* both times or at neither.
C8_IdempotentSameSide ==
    \A i, j \in DOMAIN history :
        (EndInFuture(history[i].at) <=> EndInFuture(history[j].at)) => history[i].w = history[j].w

C8_Witness ==
    /\ Len(history) = 2
    /\ history[1].at # history[2].at
    /\ BothSupplied
    /\ history[1].w.status = <<StatusOK>>
    /\ history[1].w = history[2].w

\* C9: a request ends with one response: one status code out of 200, 400 and 500
\* written once, then one JSON body; an error body holds the error message and nothing
\* else; a failed fetch is answered 500 with the underlying message after one call;
\* and until the response is written Handler can always take its next step.
C9_OneResponse ==
    /\ Len(w.status) <= 1
    /\ Len(w.body) <= 1
    /\ ~Done => w = NewWriter /\ ENABLED (HandlerValidate \/ HandlerFetch \/ HandlerRespond)
    /\ Done =>
         /\ Len(w.status) = 1
         /\ Len(w.body) = 1
         /\ w.ctype = "application/json"
         /\ w.status[1] \in {StatusOK, StatusBadRequest, StatusInternalServerError}
         /\ IF w.status[1] = StatusOK
            THEN {"meta", "data"} \subseteq DOMAIN Body /\ "error" \notin DOMAIN Body
            ELSE DOMAIN Body = {"error"}
         /\ (ParamsValid(arrival) /\ upstream.kind = "transportError") =>
                /\ w = ErrorOf(StatusInternalServerError, "error fetching data from API: " \o upstream.err)
                /\ Len(calls) = 1
         /\ (ParamsValid(arrival) /\ upstream.kind = "decodeError") =>
                /\ w = ErrorOf(StatusInternalServerError, "error decoding API response: " \o upstream.err)
                /\ Len(calls) = 1

C9_Witness ==
    /\ Done
    /\ upstream.kind = "transportError"
    /\ w.status = <<StatusInternalServerError>>
    /\ Len(calls) = 1

\* the checks of Handler in their order: <<the check fails, status, message>>
Checks(t) ==
    << <<req.mutualFundID = NoParam,
         StatusBadRequest, "mutualFundID query parameter is required">>,
       <<req.mutualFundID \notin IntegerIDs,
         StatusBadRequest, "mutualFundID must be an integer">>,
       <<(req.start = NoParam) # (req.end = NoParam),
         StatusBadRequest, "both start and end dates are required in the format dd-mm-yyyy">>,
       <<BothSupplied /\ ~ParseDate(req.start).ok,
         StatusBadRequest, "invalid start date format. use dd-mm-yyyy">>,
       <<BothSupplied /\ ~ParseDate(req.end).ok,
         StatusBadRequest, "invalid end date format. use dd-mm-yyyy">>,
       <<BothParse /\ EndT > t,
         StatusBadRequest, "end date cannot be in the future">>,
       <<BothParse /\ StartT > EndT,
         StatusBadRequest, "start date cannot be after end date">>,
       <<upstream.kind # "fund",
         StatusInternalServerError,
         IF upstream.kind = "transportError"
         THEN "error fetching data from API: " \o upstream.err
         ELSE IF upstream.kind = "decodeError"
         THEN "error decoding API response: " \o upstream.err
         ELSE "">>,
       <<upstream.kind = "fund" /\ upstream.meta = ZeroMeta,
         StatusBadRequest, "Invalid mutualFundID">> >>

\* the checks that look at the query parameters only
ParamChecks == 1..7

Failing(t) == LET cs == Checks(t) IN {i \in DOMAIN cs : cs[i][1]}

FirstFailing(t) == LET fs == Failing(t) IN CHOOSE i \in fs : \A k \in fs : i <= k

\* C10: the first failing check, in the order id missing, id not an integer, one of
\* start/end missing, start unparseable, end unparseable, end in the future, start
\* after end, fetch failure, empty metadata, alone decides the response; a failing
\* parameter check is answered 400 with no upstream call made, and the upstream is
\* called only once every parameter check has passed.
C10_CheckOrder ==
    LET failing == Failing(arrival)
    IN  /\ calls # <<>> => failing \cap ParamChecks = {}
        /\ Done =>
             IF failing = {}
             THEN w.status = <<StatusOK>>
             ELSE LET first == FirstFailing(arrival)
                      c     == Checks(arrival)[first]
                  IN  /\ w = ErrorOf(c[2], c[3])
                      /\ first \in ParamChecks => w.status = <<StatusBadRequest>> /\ calls = <<>>

C10_Witness ==
    /\ Done
    /\ Cardinality(Failing(arrival)) >= 3
    /\ FirstFailing(arrival) = 4
    /\ req.start = Date31Feb
    /\ w = ErrorOf(StatusBadRequest, "invalid start date format. use dd-mm-yyyy")
    /\ calls = <<>>

====
